---- MODULE Spec2Model ----
(***************************************************************************)
(* Model of DataAnalysis/Fitting/least_squares.py: the function            *)
(* least_squares(x, y) and a caller process that invokes it.               *)
(*                                                                         *)
(* Numbers are exact rationals [n |-> numerator, d |-> denominator] in     *)
(* lowest terms with d > 0; d = 0 stands for a non-finite float (inf or    *)
(* nan).  A square root is kept as its radicand, [rad |-> q]: the value is *)
(* the non-negative real whose square is q, nan when q < 0.  The model is  *)
(* therefore of the function in exact real arithmetic; floating-point      *)
(* rounding is not modelled.                                               *)
(***************************************************************************)
EXTENDS Integers, Sequences, FiniteSets, Bags, TLC

\* ------------------------------------------------------------------ bounds
MaxN == 3       \* longest dataset drawn from the integer grid
MaxV == 2       \* grid values of x and y are the integers 0..MaxV
MaxCalls == 3   \* calls of least_squares one process makes

\* ---------------------------------------------------- rational arithmetic
Abs(i) == IF i < 0 THEN -i ELSE i

RECURSIVE GCD(_, _)
GCD(i, j) == IF j = 0 THEN i ELSE GCD(j, i % j)

Norm(n, d) == LET g == GCD(Abs(n), d) IN [n |-> n \div g, d |-> d \div g]

R(i) == [n |-> i, d |-> 1]
Frac(i, j) == Norm(i, j)

NonFinite == [n |-> 0, d |-> 0]
IsFinite(p) == p.d # 0

RAdd(p, q) ==
    IF ~IsFinite(p) \/ ~IsFinite(q) THEN NonFinite
    ELSE LET g == GCD(p.d, q.d)
         IN  Norm(p.n * (q.d \div g) + q.n * (p.d \div g), (p.d \div g) * q.d)

RNeg(p) == [n |-> -p.n, d |-> p.d]

RSub(p, q) == RAdd(p, RNeg(q))

RMul(p, q) ==
    IF ~IsFinite(p) \/ ~IsFinite(q) THEN NonFinite
    ELSE LET g1 == GCD(Abs(p.n), q.d)
             g2 == GCD(Abs(q.n), p.d)
         IN  Norm((p.n \div g1) * (q.n \div g2), (p.d \div g2) * (q.d \div g1))

\* numpy scalar division: a zero divisor gives inf or nan, not an exception
RDiv(p, q) ==
    IF ~IsFinite(p) \/ ~IsFinite(q) \/ q.n = 0 THEN NonFinite
    ELSE RMul(p, IF q.n > 0 THEN [n |-> q.d, d |-> q.n]
                            ELSE [n |-> -q.d, d |-> -q.n])

RAbs(p) == [n |-> Abs(p.n), d |-> p.d]

\* p < q on finite rationals, by integer parts and then the reciprocals of
\* the fractional parts (no cross-multiplication)
RECURSIVE RLess(_, _)
RLess(p, q) ==
    LET fp == p.n \div p.d
        fq == q.n \div q.d
        rp == p.n % p.d
        rq == q.n % q.d
    IN  IF fp # fq THEN fp < fq
        ELSE IF rq = 0 THEN FALSE
        ELSE IF rp = 0 THEN TRUE
        ELSE RLess([n |-> q.d, d |-> rq], [n |-> p.d, d |-> rp])

RLeq(p, q) == ~RLess(q, p)

\* ------------------------------------------------------- numpy operations
RECURSIVE SumTo(_, _)
SumTo(v, k) == IF k = 0 THEN R(0) ELSE RAdd(SumTo(v, k - 1), v[k])
np_sum(v) == SumTo(v, Len(v))

\* elementwise array operations
ArrMul(u, v) == [i \in 1..Len(u) |-> RMul(u[i], v[i])]
ArrSquare(u) == ArrMul(u, u)
ArrResidual(v, u, ca, cb) ==
    [i \in 1..Len(u) |-> RSub(v[i], RAdd(ca, RMul(cb, u[i])))]

\* np.sqrt: nan for a negative or non-finite argument
np_sqrt(q) == IF IsFinite(q) /\ q.n >= 0 THEN [rad |-> q] ELSE [rad |-> NonFinite]
\* sigma**2
Square(s) == s.rad

\* ------------------------------------------------------------- constants
\* 0.000001, the threshold of the denominator test
Eps == Frac(1, 1000000)

MsgN == "Error! Need at least two data points!"
MsgDenom == "Error! Denomominator is zero!"

\* ---------------------------------------------------------------- inputs
\* Datasets on the integer grid, listed in ascending order of x (the fit does
\* not depend on the order of the pairs), x and y of equal length.
Ascending(s) == \A i \in 1..(Len(s) - 1) : s[i] <= s[i + 1]
ToReal(s) == [i \in 1..Len(s) |-> R(s[i])]
GridX(k) == {ToReal(s) : s \in {t \in [1..k -> 0..MaxV] : Ascending(t)}}
GridY(k) == {ToReal(s) : s \in [1..k -> 0..MaxV]}

\* Datasets whose x values differ only at the 1e-4 level:
\*   denom = 3.75e-7 with three distinct x values,
\*   denom = 1e-6 exactly, and denom = 1.5e-6.
NearDegenerateX ==
    { <<R(0), Frac(1, 4000), Frac(1, 2000)>>,
      <<R(0), R(0), Frac(1, 2000), Frac(1, 2000)>>,
      <<R(0), Frac(1, 2000), Frac(1, 1000)>> }

Datasets ==
    UNION {GridX(k) \X GridY(k) : k \in 0..MaxN}
    \cup UNION {{u} \X GridY(Len(u)) : u \in NearDegenerateX}

\* A second, valid dataset the caller may fit between two fits of its own.
ProbeX == <<R(0), R(1), R(2)>>
ProbeY == <<R(0), R(2), R(1)>>

\* ----------------------------------------------------------------- state
VARIABLES
    dx, dy,        \* the caller's dataset
    x, y,          \* the arguments of the current (or latest) call
    N, s_x, s_y, s_xx, s_xy, denom, a, b, sigma, sigma_a, sigma_b,
    bound,         \* names of the locals bound in the frame of the current call
    pc,            \* "idle" (in the caller), a position in least_squares, "exited"
    stdout,        \* lines printed
    result,        \* the list returned by the latest call, <<>> when there is none
    calls,         \* number of calls made by the process
    memo,          \* bag of the <<x, y, result>> of the calls that returned
    divided,       \* a division by denom was performed in the current call
    branch         \* branch of the N > 2 test taken by the current call

locals == <<N, s_x, s_y, s_xx, s_xy, denom, a, b, sigma, sigma_a, sigma_b, bound>>
vars == <<dx, dy, x, y, locals, pc, stdout, result, calls, memo, divided, branch>>

ZeroRoot == np_sqrt(R(0))

NoFrame ==
    /\ N = 0 /\ s_x = R(0) /\ s_y = R(0) /\ s_xx = R(0) /\ s_xy = R(0)
    /\ denom = R(0) /\ a = R(0) /\ b = R(0)
    /\ sigma = ZeroRoot /\ sigma_a = ZeroRoot /\ sigma_b = ZeroRoot
    /\ bound = {}

\* the frame of a call that returned is discarded
DropFrame ==
    /\ N' = 0 /\ s_x' = R(0) /\ s_y' = R(0) /\ s_xx' = R(0) /\ s_xy' = R(0)
    /\ denom' = R(0) /\ a' = R(0) /\ b' = R(0)
    /\ sigma' = ZeroRoot /\ sigma_a' = ZeroRoot /\ sigma_b' = ZeroRoot
    /\ bound' = {}

Init ==
    /\ \E d \in Datasets : dx = d[1] /\ dy = d[2]
    /\ x = <<>> /\ y = <<>>
    /\ NoFrame
    /\ pc = "idle"
    /\ stdout = <<>>
    /\ result = <<>>
    /\ calls = 0
    /\ memo = EmptyBag
    /\ divided = FALSE
    /\ branch = "none"

\* ----------------------------------------------- least_squares, by line
\* line 24
TooFewOffByOne == N < 2
TooFew == N <= 2

\* line 34
DegenerateTighter == IsFinite(denom) /\ RLess(RAbs(denom), Frac(1, 10000000))
DegenerateExactZero == denom = R(0)
Degenerate == IsFinite(denom) /\ RLess(RAbs(denom), Eps)

\* line 33
DenominatorNoSquare(n, sxx, sx) == RSub(RMul(R(n), sxx), sx)
Denominator(n, sxx, sx) == RSub(RMul(R(n), sxx), RMul(sx, sx))

\* line 39
InterceptPlus == RDiv(RAdd(RMul(s_xx, s_y), RMul(s_x, s_xy)), denom)
Intercept == RDiv(RSub(RMul(s_xx, s_y), RMul(s_x, s_xy)), denom)

\* line 40
SlopePlus == RDiv(RAdd(RMul(R(N), s_xy), RMul(s_x, s_y)), denom)
Slope == RDiv(RSub(RMul(R(N), s_xy), RMul(s_x, s_y)), denom)

\* np.sum((y - (a + b * x))**2)
RSS(u, v, ca, cb) == np_sum(ArrSquare(ArrResidual(v, u, ca, cb)))

\* line 44
SigmaDropsSlope == np_sqrt(RDiv(RSS(x, y, a, R(0)), R(N - 2)))
Sigma == np_sqrt(RDiv(RSS(x, y, a, b), R(N - 2)))

\* line 45
SigmaA(s) == np_sqrt(RDiv(RMul(Square(s), s_xx), denom))

\* line 46
SigmaB(s) == np_sqrt(RDiv(RMul(Square(s), R(N)), denom))

\* sys.exit(): SystemExit ends the process; the frame is left as it was
sys_exit(msg) ==
    /\ stdout' = Append(stdout, msg)
    /\ pc' = "exited"

\* lines 6, 22: the call binds x and y and computes N = len(x)
Call(cx, cy) ==
    /\ pc = "idle"
    /\ calls < MaxCalls
    /\ x' = cx /\ y' = cy
    /\ N' = Len(cx)
    /\ bound' = {"N"}
    /\ pc' = "guardN"
    /\ calls' = calls + 1
    /\ result' = <<>>
    /\ divided' = FALSE
    /\ branch' = "none"
    /\ UNCHANGED <<dx, dy, s_x, s_y, s_xx, s_xy, denom, a, b,
                   sigma, sigma_a, sigma_b, stdout, memo>>

\* lines 24-26
GuardN ==
    /\ pc = "guardN"
    /\ IF TooFew THEN sys_exit(MsgN) ELSE pc' = "stats" /\ stdout' = stdout
    /\ UNCHANGED <<dx, dy, x, y, locals, result, calls, memo, divided, branch>>

\* lines 29-33
StatsInPlace ==
    /\ pc = "stats"
    /\ x' = ArrSquare(x)
    /\ s_x' = np_sum(x)
    /\ s_y' = np_sum(y)
    /\ s_xx' = np_sum(x')
    /\ s_xy' = np_sum(ArrMul(x, y))
    /\ denom' = Denominator(N, s_xx', s_x')
    /\ bound' = bound \cup {"s_x", "s_y", "s_xx", "s_xy", "denom"}
    /\ pc' = "guardDenom"
    /\ UNCHANGED <<dx, dy, y, N, a, b, sigma, sigma_a, sigma_b,
                   stdout, result, calls, memo, divided, branch>>

StatsAndSolve ==
    /\ pc = "stats"
    /\ s_x' = np_sum(x)
    /\ s_y' = np_sum(y)
    /\ s_xx' = np_sum(ArrSquare(x))
    /\ s_xy' = np_sum(ArrMul(x, y))
    /\ denom' = Denominator(N, s_xx', s_x')
    /\ a' = RDiv(RSub(RMul(s_xx', s_y'), RMul(s_x', s_xy')), denom')
    /\ b' = RDiv(RSub(RMul(R(N), s_xy'), RMul(s_x', s_y')), denom')
    /\ divided' = TRUE
    /\ bound' = bound \cup {"s_x", "s_y", "s_xx", "s_xy", "denom", "a", "b"}
    /\ pc' = "guardDenom"
    /\ UNCHANGED <<dx, dy, x, y, N, sigma, sigma_a, sigma_b,
                   stdout, result, calls, memo, branch>>

Stats ==
    /\ pc = "stats"
    /\ s_x' = np_sum(x)
    /\ s_y' = np_sum(y)
    /\ s_xx' = np_sum(ArrSquare(x))
    /\ s_xy' = np_sum(ArrMul(x, y))
    /\ denom' = Denominator(N, s_xx', s_x')
    /\ bound' = bound \cup {"s_x", "s_y", "s_xx", "s_xy", "denom"}
    /\ pc' = "guardDenom"
    /\ UNCHANGED <<dx, dy, x, y, N, a, b, sigma, sigma_a, sigma_b,
                   stdout, result, calls, memo, divided, branch>>

\* lines 34-36
GuardDenom ==
    /\ pc = "guardDenom"
    /\ IF Degenerate THEN sys_exit(MsgDenom) ELSE pc' = "solve" /\ stdout' = stdout
    /\ UNCHANGED <<dx, dy, x, y, locals, result, calls, memo, divided, branch>>

\* lines 39-40
Solve ==
    /\ pc = "solve"
    /\ a' = Intercept
    /\ b' = Slope
    /\ divided' = TRUE
    /\ bound' = bound \cup {"a", "b"}
    /\ pc' = "uncert"
    /\ UNCHANGED <<dx, dy, x, y, N, s_x, s_y, s_xx, s_xy, denom,
                   sigma, sigma_a, sigma_b, stdout, result, calls, memo, branch>>

\* lines 43-50
Uncert ==
    /\ pc = "uncert"
    /\ IF N > 2
       THEN /\ sigma' = Sigma
            /\ sigma_a' = SigmaA(sigma')
            /\ sigma_b' = SigmaB(sigma')
            /\ branch' = "if"
       ELSE /\ sigma' = ZeroRoot
            /\ sigma_a' = ZeroRoot
            /\ sigma_b' = ZeroRoot
            /\ branch' = "else"
    /\ bound' = bound \cup {"sigma", "sigma_a", "sigma_b"}
    /\ pc' = "return"
    /\ UNCHANGED <<dx, dy, x, y, N, s_x, s_y, s_xx, s_xy, denom, a, b,
                   stdout, result, calls, memo, divided>>

\* line 52: the list goes to the caller and the frame is discarded
Return ==
    /\ pc = "return"
    /\ result' = <<a, b, sigma, sigma_a, sigma_b>>
    /\ memo' = memo (+) SetToBag({<<x, y, result'>>})
    /\ DropFrame
    /\ pc' = "idle"
    /\ UNCHANGED <<dx, dy, x, y, stdout, calls, divided, branch>>

\* A process that fits its dataset once.
Next ==
    \/ calls = 0 /\ Call(dx, dy)
    \/ GuardN
    \/ Stats
    \/ GuardDenom
    \/ Solve
    \/ Uncert
    \/ Return

Spec == Init /\ [][Next]_vars

\* A process that makes up to MaxCalls calls, each on its own dataset or on
\* the second one, in any order.
NextRepeat ==
    \/ \E d \in {<<dx, dy>>, <<ProbeX, ProbeY>>} : Call(d[1], d[2])
    \/ GuardN
    \/ Stats
    \/ GuardDenom
    \/ Solve
    \/ Uncert
    \/ Return

SpecRepeat == Init /\ [][NextRepeat]_vars

\* ------------------------------------------------------------ outcomes
\* The outcome of a call is one of: the list returned (Returned), or one of
\* the two exits, told apart by the line printed before sys.exit().
Returned == pc = "idle" /\ result # <<>>
InsufficientData == pc = "exited" /\ stdout = <<MsgN>>
DegenerateInput == pc = "exited" /\ stdout = <<MsgDenom>>

\* denom as a function of the array x alone
DenomOf(u) == Denominator(Len(u), np_sum(ArrSquare(u)), np_sum(u))
AllEqual(u) == \A i, j \in 1..Len(u) : u[i] = u[j]
NearZeroDenom(u) == RLess(RAbs(DenomOf(u)), Eps)

\* C1: a failed guard is reported to the caller as one of two different,
\* recoverable errors: the process that called least_squares is still running
\* after the failure (it is not ended by it) and can call again.
C1_RecoverableErrors ==
    (stdout # <<>>) =>
        /\ stdout[Len(stdout)] \in {MsgN, MsgDenom}
        /\ MsgN # MsgDenom
        /\ pc # "exited"

\* C2: every call with len(x) <= 2 ends, as soon as the first guard has run,
\* in the InsufficientData outcome, and returns no list, whatever x and y hold.
C2_InsufficientData ==
    (calls > 0 /\ Len(x) <= 2 /\ pc # "guardN") =>
        /\ InsufficientData
        /\ result = <<>>
        /\ \A m \in BagToSet(memo) : Len(m[1]) > 2

C2_Witness ==
    /\ InsufficientData
    /\ x = <<R(1), R(2)>> /\ y = <<R(1), R(2)>>

\* C3: every call with N > 2 and |denom| < 1e-6 (in particular with all x
\* equal) ends in the DegenerateInput outcome once the second guard has run,
\* returns no list and never divides by denom.
C3_DegenerateInput ==
    /\ (calls > 0 /\ Len(x) > 2 /\ AllEqual(x)) => NearZeroDenom(x)
    /\ (calls > 0 /\ Len(x) > 2 /\ NearZeroDenom(x)) =>
        /\ ~divided
        /\ result = <<>>
        /\ pc \in {"guardN", "stats", "guardDenom", "exited"}
        /\ pc = "exited" => DegenerateInput

C3_Witness ==
    /\ DegenerateInput
    /\ x = <<R(2), R(2), R(2)>> /\ y = <<R(0), R(1), R(2)>>
    /\ ~divided

\* The line through the data, when the x values are not all equal: slope and
\* intercept from the first point and the first point with another x.
OtherIndex(u) == CHOOSE j \in 1..Len(u) :
                    /\ u[j] # u[1]
                    /\ \A k \in 1..(j - 1) : u[k] = u[1]
LineSlope(u, v) ==
    LET j == OtherIndex(u) IN RDiv(RSub(v[j], v[1]), RSub(u[j], u[1]))
LineIntercept(u, v) == RSub(v[1], RMul(LineSlope(u, v), u[1]))
\* y_i = a0 + b0 * x_i exactly, for some a0 and b0, over 3 or more distinct x
ExactLine(u, v) ==
    /\ Len(u) >= 3
    /\ Cardinality({u[i] : i \in 1..Len(u)}) >= 3
    /\ \A i \in 1..Len(u) :
           v[i] = RAdd(LineIntercept(u, v), RMul(LineSlope(u, v), u[i]))
Recovered(u, v) ==
    <<LineIntercept(u, v), LineSlope(u, v), ZeroRoot, ZeroRoot, ZeroRoot>>

\* C4 as stated: whenever y_i = a0 + b0 * x_i exactly over at least 3 distinct
\* x values, the call does not fail and returns a = a0, b = b0 and
\* sigma = sigma_a = sigma_b = 0.
C4_ExactRecovery_AsStated ==
    (calls > 0 /\ ExactLine(x, y)) =>
        /\ pc # "exited"
        /\ pc = "idle" => result = Recovered(x, y)

\* C4 amended: the same, for the inputs whose denom is not below 1e-6.
C4_ExactRecovery ==
    (calls > 0 /\ ExactLine(x, y) /\ ~NearZeroDenom(x)) =>
        /\ pc # "exited"
        /\ pc = "idle" => result = Recovered(x, y)

C4_Witness ==
    /\ Returned
    /\ x = <<R(0), R(1), R(2)>> /\ y = <<R(2), R(1), R(0)>>
    /\ result = <<R(2), R(-1), ZeroRoot, ZeroRoot, ZeroRoot>>

\* C5: the a and b of every returned list satisfy both normal equations:
\* sum(y - a - b*x) = 0 and sum(x * (y - a - b*x)) = 0.
C5_ResidualOrthogonality ==
    Returned =>
        LET r == ArrResidual(y, x, result[1], result[2])
        IN  /\ np_sum(r) = R(0)
            /\ np_sum(ArrMul(x, r)) = R(0)

C5_Witness ==
    /\ Returned
    /\ x = <<R(0), R(1), R(2)>> /\ y = <<R(0), R(2), R(1)>>
    /\ result[1] = Frac(1, 2) /\ result[2] = Frac(1, 2)

\* Candidate pairs (a', b'): integers around the data, and slopes at the
\* scale of the near-degenerate datasets.
Candidates ==
    {R(i) : i \in -1..3}
    \X ({R(j) : j \in -2..2} \cup {R(-2000), R(-1000), R(1000), R(2000)})

\* C6: the a and b of every returned list give a residual sum of squares no
\* larger than that of any candidate pair (a', b').
C6_GlobalOptimality ==
    Returned =>
        LET best == RSS(x, y, result[1], result[2])
        IN  \A c \in Candidates : RLeq(best, RSS(x, y, c[1], c[2]))

C6_Witness ==
    /\ Returned
    /\ x = <<R(0), R(1), R(2)>> /\ y = <<R(0), R(2), R(1)>>
    /\ RLess(RSS(x, y, result[1], result[2]), RSS(x, y, R(0), R(1)))

\* C7: the list returned depends on x and y alone: all calls of one process
\* that were given the same x and y returned the same list, whatever calls
\* came between them; an exit is decided by x alone; no local of a call
\* outlives it; and no step of a call changes x, y or the caller's dataset.
SameOutcomeForSameInput ==
    \A m1, m2 \in BagToSet(memo) :
        (m1[1] = m2[1] /\ m1[2] = m2[2]) => m1[3] = m2[3]

C7_Idempotence ==
    /\ [](SameOutcomeForSameInput)
    /\ [](pc = "exited" =>
            stdout = <<IF Len(x) <= 2 THEN MsgN ELSE MsgDenom>>)
    /\ [](pc = "idle" => NoFrame)
    /\ [][/\ dx' = dx /\ dy' = dy
          /\ pc # "idle" => (x' = x /\ y' = y)]_vars

\* the caller's dataset was fitted twice, with a fit of the other dataset
\* among the calls, and the list is the same both times
C7_Witness ==
    /\ Returned
    /\ calls = 3
    /\ x = dx /\ y = dy
    /\ <<dx, dy>> # <<ProbeX, ProbeY>>
    /\ CopiesIn(<<dx, dy, result>>, memo) = 2
    /\ \E m \in BagToSet(memo) : m[1] = ProbeX /\ m[2] = ProbeY

\* C8: the N <= 2 test runs before any statistic is computed, the denom test
\* after denom is computed and before a or b is; so a call with N <= 2 and all
\* x equal exits as InsufficientData, and at either exit none of a, b, sigma,
\* sigma_a, sigma_b has been computed.
C8_GuardOrdering ==
    /\ pc = "guardN" => bound = {"N"}
    /\ pc = "guardDenom" =>
        /\ "denom" \in bound
        /\ bound \cap {"a", "b", "sigma", "sigma_a", "sigma_b"} = {}
        /\ ~divided
    /\ pc = "exited" =>
        /\ bound \cap {"a", "b", "sigma", "sigma_a", "sigma_b"} = {}
        /\ stdout = <<MsgN>> => bound = {"N"}
        /\ stdout = <<MsgDenom>> => "denom" \in bound
        /\ Len(x) <= 2 => InsufficientData

C8_Witness ==
    /\ InsufficientData
    /\ x = <<R(2), R(2)>>
    /\ bound = {"N"}

\* C9 as stated: a list is returned only when N > 2 and |denom| > 1e-6.
C9_ResultOnlyAboveEps_AsStated ==
    Returned => (Len(x) > 2 /\ RLess(Eps, RAbs(DenomOf(x))))

\* C9 amended: a list is returned only when N > 2 and |denom| >= 1e-6.
C9_ResultOnlyFromEps ==
    Returned => (Len(x) > 2 /\ RLeq(Eps, RAbs(DenomOf(x))))

\* a list returned for |denom| = 1e-6 exactly
C9_Witness ==
    /\ Returned
    /\ x = <<R(0), R(0), Frac(1, 2000), Frac(1, 2000)>>
    /\ DenomOf(x) = Eps

\* C10: denom is non-negative for every x, and zero exactly when all x are
\* equal; past the second guard denom > 0; the arguments of the three square
\* roots are non-negative, so sigma, sigma_a and sigma_b are defined; and the
\* else branch of the N > 2 test is never taken.
C10_DenomNonNegative ==
    /\ \A u \in {dx, x} :
        /\ RLeq(R(0), DenomOf(u))
        /\ DenomOf(u) = R(0) <=> AllEqual(u)
    /\ pc \in {"solve", "uncert", "return"} => RLess(R(0), denom)
    /\ pc = "return" =>
        /\ IsFinite(sigma.rad) /\ sigma.rad.n >= 0
        /\ IsFinite(sigma_a.rad) /\ sigma_a.rad.n >= 0
        /\ IsFinite(sigma_b.rad) /\ sigma_b.rad.n >= 0
    /\ Returned => \A i \in 3..5 : IsFinite(result[i].rad)
    /\ branch # "else"

C10_Witness ==
    /\ pc = "return"
    /\ branch = "if"
    /\ RLess(R(0), denom)
    /\ sigma.rad.n > 0 /\ sigma_a.rad.n > 0 /\ sigma_b.rad.n > 0

====
